---- MODULE Spec2Model ----
(***************************************************************************)
(* weldyn: YamlConfigurableModel.                                          *)
(*                                                                         *)
(* A pydantic model whose fields are loaded from, and written back to,     *)
(* YAML files.  src/weldyn/weldyn.py holds the class with its two          *)
(* validators; the helpers it imports from model_to_yaml_interface         *)
(* (get_model_mapping_and_path, check_model_overlap, check_yaml_path,      *)
(* generate_yaml_from_model, update_yaml_from_model) are modelled from     *)
(* the specification, sections 4.1 to 4.5.                                 *)
(***************************************************************************)
EXTENDS Integers, Sequences, FiniteSets, TLC

VARIABLES
    defaults,   \* cls.model_fields[f].get_default(), per declared field
    yamlPath,   \* cls.YamlConfig.YAML_PATH: "absent", "str" or "Path"
    mapping,    \* cls.YamlConfig.MODEL_MAPPING: <<group id, field names>>, in dict order
    files,      \* the directory YAML_PATH: file name -> document, or NoFile
    pc,         \* "idle", "validate", "fields", "done", "error"
    idx,        \* position, in declaration order, of the next field to validate
    values,     \* what the field validator returned, per field
    invalid,    \* fields whose returned value the schema framework could not coerce
    err,        \* the error that ended the instantiation
    runs,       \* instantiations started so far
    io,         \* filesystem operations of the current instantiation, in order
    before      \* the directory as it was when the current instantiation started

vars == <<defaults, yamlPath, mapping, files, pc, idx, values,
          invalid, err, runs, io, before>>

(***************************************************************************)
(* Bounds                                                                  *)
(***************************************************************************)
\* The scalars a file holds before the first instantiation are 1..MaxVal; every
\* scalar default of the schema is 0.
MaxVal == 1
\* Nodes (keys with their values) in the files of the directory and in the
\* defaults of the declared fields, together.
MaxNodes == 3
\* Instantiations of the schema in one behaviour.
MaxRuns == 2
\* Nodes in the models file and in the defaults together, under SpecNested.
MaxNestedNodes == 5

(***************************************************************************)
(* Document trees: what yaml.safe_load returns and yaml.dump takes.        *)
(***************************************************************************)
NoKids == [k \in {} |-> 0]
Leaf(v) == [tag |-> "leaf", val |-> v, kids |-> NoKids]
Tree(kids) == [tag |-> "tree", val |-> 0, kids |-> kids]
NoFile == [tag |-> "nofile", val |-> 0, kids |-> NoKids]
Unset == [tag |-> "unset", val |-> 0, kids |-> NoKids]
IsTree(n) == n.tag = "tree"
Has(n, k) == IsTree(n) /\ k \in DOMAIN n.kids

\* The declared fields of the schema, in declaration order.
FieldOrder == <<"f1", "f2", "f3">>
Fields == {FieldOrder[i] : i \in 1..Len(FieldOrder)}
\* Field names of the nested models.
Keys == {"x", "y"}

RECURSIVE KidsFrom(_, _, _)
\* The functions on the keys S whose values count m nodes together, the nodes of
\* i nodes being t[i].
KidsFrom(t, m, S) ==
    IF S = {} THEN (IF m = 0 THEN {NoKids} ELSE {})
    ELSE LET k == CHOOSE j \in S : TRUE
             rest == S \ {k}
         IN UNION {LET others == KidsFrom(t, m - s, rest)
                   IN {[j \in S |-> IF j = k THEN n ELSE g[j]] :
                            n \in t[s], g \in others} :
                    s \in 1..(m - Cardinality(rest))}

RECURSIVE NodeTable(_, _, _)
\* <<the nodes of 1 node, ..., the nodes of n nodes>>, with leaves in `vals` and
\* keys in `keys`; a tree without keys is a node when `vals` holds more than
\* the default.
NodeTable(n, keys, vals) ==
    IF n = 0 THEN <<>>
    ELSE LET t == NodeTable(n - 1, keys, vals)
         IN Append(t,
                IF n = 1
                THEN {Leaf(v) : v \in vals}
                        \cup (IF vals = {0} THEN {} ELSE {Tree(NoKids)})
                ELSE UNION {{Tree(f) : f \in KidsFrom(t, n - 1, S)} :
                                S \in (SUBSET keys) \ {{}}})

LargestTree == IF MaxNodes > MaxNestedNodes THEN MaxNodes ELSE MaxNestedNodes
\* What a file may hold below a top-level key, by size.
NodesBySize == NodeTable(LargestTree, Keys, 1..MaxVal)
\* The default of a declared field, by size.
ShapesBySize == NodeTable(LargestTree + 1, Keys, {0})

\* The documents of m nodes: a mapping from top-level keys to nodes.
DocsOfSize(m) ==
    LET t == NodesBySize
    IN UNION {{Tree(f) : f \in KidsFrom(t, m, S)} : S \in SUBSET Fields}

\* A file of the directory holding m nodes; NoFile holds none.
FilesOfSize(m) == IF m = 0 THEN {NoFile, Tree(NoKids)} ELSE DocsOfSize(m)

\* File names under YAML_PATH.
YamlExt == "yaml"
FileNames == {<<"g1", YamlExt>>, <<"g2", YamlExt>>}
FileA == <<"g1", YamlExt>>
FileB == <<"g2", YamlExt>>

\* The directories that hold m nodes, all of them in the first file.
DirsOfSize(m) ==
    {[p \in FileNames |-> IF p = FileA THEN a ELSE NoFile] : a \in FilesOfSize(m)}

(***************************************************************************)
(* Schema values: the default instance of a field.  A BaseModel instance   *)
(* has fields of its own; anything else is a scalar.                       *)
(***************************************************************************)
Scalar(v) == [kind |-> "scalar", default |-> v, fields |-> NoKids]
Model(fs) == [kind |-> "model", default |-> 0, fields |-> fs]
IsModel(d) == d.kind = "model"

RECURSIVE AsSchema(_)
\* The schema value whose shape is that of node n.
AsSchema(n) ==
    IF IsTree(n) THEN Model([k \in DOMAIN n.kids |-> AsSchema(n.kids[k])])
    ELSE Scalar(n.val)

\* The schemas whose defaults hold m nodes below the declared fields.
SchemasOfSize(m) ==
    LET t == ShapesBySize
    IN {[f \in Fields |-> AsSchema(g[f])] :
            g \in KidsFrom(t, m + Cardinality(Fields), Fields)}

\* The schemas of m nodes below the declared fields, all of them in the default
\* of the first field: the other defaults are scalars.
NestedSchemasOfSize(m) ==
    {[f \in Fields |-> IF f = FieldOrder[1] THEN AsSchema(n) ELSE Scalar(0)] :
        n \in ShapesBySize[m + 1]}

NoInst == [kind |-> "none", default |-> 0, fields |-> NoKids]

(***************************************************************************)
(* Default Tree Builder: model_dump of a default instance.                 *)
(***************************************************************************)
RECURSIVE model_dump(_)
model_dump(d) ==
    IF IsModel(d) THEN Tree([k \in DOMAIN d.fields |-> model_dump(d.fields[k])])
    ELSE Leaf(d.default)

(***************************************************************************)
(* Recursive Reconciler: the on-disk tree D against the default tree T.    *)
(***************************************************************************)
\* Mismatched taking the default value.
MismatchedTakesDefault(d, t) == t

\* A key of both trees of which exactly one value is a tree: the on-disk value
\* is taken as it is (section 4.4, step 1, second rule; section 9).
Mismatched(d, t) == d

RECURSIVE Reconcile(_, _)
Reconcile(D, T) ==
    Tree([k \in DOMAIN T.kids |->
            IF k \in DOMAIN D.kids
            THEN IF IsTree(T.kids[k]) /\ IsTree(D.kids[k])
                 THEN Reconcile(D.kids[k], T.kids[k])
                 ELSE IF IsTree(T.kids[k]) # IsTree(D.kids[k])
                      THEN Mismatched(D.kids[k], T.kids[k])
                      ELSE D.kids[k]
            ELSE T.kids[k]])

(***************************************************************************)
(* The helpers of model_to_yaml_interface.                                 *)
(***************************************************************************)
Range(s) == {s[i] : i \in 1..Len(s)}
None == "None"

\* YAML_PATH and MODEL_MAPPING of cls.YamlConfig; a mapping without a path is an error.
get_model_mapping_and_path ==
    [path |-> IF yamlPath = "absent" THEN None ELSE yamlPath,
     mapping |-> mapping,
     missing |-> (yamlPath = "absent" /\ Len(mapping) > 0)]

\* The groups of model_mapping that list the field.
GroupsOf(field, model_mapping) ==
    {i \in 1..Len(model_mapping) : field \in Range(model_mapping[i][2])}

\* TRUE when the field is listed by more than one group: ConfigurationConflict.
check_model_overlap(field, model_mapping) ==
    Cardinality(GroupsOf(field, model_mapping)) > 1

\* The file of a group: the identifier as it is when it carries the extension,
\* the extension appended otherwise.
locate_yaml_file(yaml_file, yaml_path) ==
    IF Len(yaml_file) > 1 /\ yaml_file[Len(yaml_file)] = YamlExt
    THEN yaml_file
    ELSE Append(yaml_file, YamlExt)

\* The default tree of a group: every field of the group under its name.
GroupDefault(models) ==
    Tree([g \in Range(models) |-> model_dump(defaults[g])])

\* The fields of the group the field is resolved in: the first that lists it.
GroupFields(field) ==
    LET gs == GroupsOf(field, mapping)
        i == CHOOSE j \in gs : \A h \in gs : j <= h
    IN mapping[i][2]

\* First-time generation: the default tree of every field of the group.
generate_yaml_from_model(field, model_class, yaml_file_path) ==
    GroupDefault(GroupFields(field))

\* Reconciliation of the loaded document: the tree written back.
update_yaml_from_model(field, model_class, models, doc) ==
    Reconcile(doc, GroupDefault(models))

(***************************************************************************)
(* The schema framework's coercion of a returned value into the field's    *)
(* declared type.                                                          *)
(***************************************************************************)
RECURSIVE Coerces(_, _)
Coerces(raw, d) ==
    IF IsModel(d)
    THEN /\ IsTree(raw)
         /\ \A k \in DOMAIN d.fields \cap DOMAIN raw.kids :
                Coerces(raw.kids[k], d.fields[k])
    ELSE raw.tag = "leaf"

Op(field, op, path, doc) == [field |-> field, op |-> op, path |-> path, doc |-> doc]

(***************************************************************************)
(* YamlConfigurableModel.load_or_generate_model_config, the validator of   *)
(* every field: what one call does to the directory and what it returns.   *)
(***************************************************************************)
Returned(v) == [inst |-> v, raw |-> Unset]
Loaded(raw) == [inst |-> NoInst, raw |-> raw]
Untouched(v) == [error |-> "", files |-> files, io |-> <<>>, value |-> Returned(v)]
Raised(e) == [error |-> e, files |-> files, io |-> <<>>, value |-> Returned(NoInst)]

\* ResolveInGroup returning the field's default instead of what was loaded.
ResolveInGroupReturnsDefault(field, yaml_file, models, yaml_path) ==
    LET model_class == defaults[field]
        yaml_file_path == locate_yaml_file(yaml_file, yaml_path)
        is_file == files[yaml_file_path] # NoFile
        generated == generate_yaml_from_model(field, model_class, yaml_file_path)
        doc == IF is_file THEN files[yaml_file_path] ELSE generated
        merged == update_yaml_from_model(field, model_class, models, doc)
    IN [error |-> "",
        files |-> [files EXCEPT ![yaml_file_path] = merged],
        io |-> <<Op(field, "is_file", yaml_file_path, Unset)>>
               \o (IF is_file THEN <<>>
                   ELSE <<Op(field, "write", yaml_file_path, generated)>>)
               \o <<Op(field, "read", yaml_file_path, doc),
                    Op(field, "write", yaml_file_path, merged)>>,
        value |-> Loaded(model_dump(model_class))]

\* ResolveInGroup handing every field of the schema to the update, not the group's.
ResolveInGroupAllFields(field, yaml_file, models, yaml_path) ==
    LET model_class == defaults[field]
        yaml_file_path == locate_yaml_file(yaml_file, yaml_path)
        is_file == files[yaml_file_path] # NoFile
        generated == generate_yaml_from_model(field, model_class, yaml_file_path)
        doc == IF is_file THEN files[yaml_file_path] ELSE generated
        merged == update_yaml_from_model(field, model_class, FieldOrder, doc)
    IN [error |-> "",
        files |-> [files EXCEPT ![yaml_file_path] = merged],
        io |-> <<Op(field, "is_file", yaml_file_path, Unset)>>
               \o (IF is_file THEN <<>>
                   ELSE <<Op(field, "write", yaml_file_path, generated)>>)
               \o <<Op(field, "read", yaml_file_path, doc),
                    Op(field, "write", yaml_file_path, merged)>>,
        value |-> Loaded(merged.kids[field])]

\* ResolveInGroup handing the resolved field alone to the update.
ResolveInGroupOwnField(field, yaml_file, models, yaml_path) ==
    LET model_class == defaults[field]
        yaml_file_path == locate_yaml_file(yaml_file, yaml_path)
        is_file == files[yaml_file_path] # NoFile
        generated == generate_yaml_from_model(field, model_class, yaml_file_path)
        doc == IF is_file THEN files[yaml_file_path] ELSE generated
        merged == update_yaml_from_model(field, model_class, <<field>>, doc)
    IN [error |-> "",
        files |-> [files EXCEPT ![yaml_file_path] = merged],
        io |-> <<Op(field, "is_file", yaml_file_path, Unset)>>
               \o (IF is_file THEN <<>>
                   ELSE <<Op(field, "write", yaml_file_path, generated)>>)
               \o <<Op(field, "read", yaml_file_path, doc),
                    Op(field, "write", yaml_file_path, merged)>>,
        value |-> Loaded(merged.kids[field])]

\* The body of the loop for the group that lists the field: lines 72 to 76.
ResolveInGroup(field, yaml_file, models, yaml_path) ==
    LET model_class == defaults[field]
        yaml_file_path == locate_yaml_file(yaml_file, yaml_path)
        is_file == files[yaml_file_path] # NoFile
        generated == generate_yaml_from_model(field, model_class, yaml_file_path)
        doc == IF is_file THEN files[yaml_file_path] ELSE generated
        merged == update_yaml_from_model(field, model_class, models, doc)
    IN [error |-> "",
        files |-> [files EXCEPT ![yaml_file_path] = merged],
        io |-> <<Op(field, "is_file", yaml_file_path, Unset)>>
               \o (IF is_file THEN <<>>
                   ELSE <<Op(field, "write", yaml_file_path, generated)>>)
               \o <<Op(field, "read", yaml_file_path, doc),
                    Op(field, "write", yaml_file_path, merged)>>,
        value |-> Loaded(merged.kids[field])]

\* load_or_generate without the overlap check: the first group that lists the
\* field resolves it.
load_or_generate_unchecked(field, v) ==
    LET cfg == get_model_mapping_and_path
        gs == GroupsOf(field, cfg.mapping)
        i == CHOOSE j \in gs : \A h \in gs : j <= h
    IN IF cfg.missing THEN Raised("ConfigurationMissing")
       ELSE IF cfg.path = None THEN Untouched(v)
       ELSE IF gs = {} THEN Untouched(v)
       ELSE ResolveInGroup(field, cfg.mapping[i][1], cfg.mapping[i][2], cfg.path)

\* load_or_generate without its last line: nothing is returned for a field no
\* group lists.
load_or_generate_falls_through(field, v) ==
    LET cfg == get_model_mapping_and_path
        gs == GroupsOf(field, cfg.mapping)
        i == CHOOSE j \in gs : \A h \in gs : j <= h
    IN IF cfg.missing THEN Raised("ConfigurationMissing")
       ELSE IF cfg.path = None THEN Untouched(NoInst)
       ELSE IF check_model_overlap(field, cfg.mapping)
            THEN Raised("ConfigurationConflict")
       ELSE IF gs = {} THEN Untouched(NoInst)
       ELSE ResolveInGroup(field, cfg.mapping[i][1], cfg.mapping[i][2], cfg.path)

load_or_generate(field, v) ==
    LET cfg == get_model_mapping_and_path
        gs == GroupsOf(field, cfg.mapping)
        i == CHOOSE j \in gs : \A h \in gs : j <= h
    IN IF cfg.missing THEN Raised("ConfigurationMissing")
       ELSE IF cfg.path = None THEN Untouched(v)
       ELSE IF check_model_overlap(field, cfg.mapping)
            THEN Raised("ConfigurationConflict")
       ELSE IF gs = {} THEN Untouched(v)
       ELSE ResolveInGroup(field, cfg.mapping[i][1], cfg.mapping[i][2], cfg.path)

(***************************************************************************)
(* The class definitions: YamlConfig of the schema.                        *)
(***************************************************************************)
G1 == <<"g1">>
G1y == <<"g1", YamlExt>>
G2 == <<"g2">>
G2y == <<"g2", YamlExt>>

NoMapping == <<>>
BlockMapping == << <<G1y, <<"f1", "f2">>>> >>
SplitMapping == << <<G1, <<"f1">>>>, <<G2, <<"f2">>>> >>
OverlapMapping == << <<G1, <<"f1", "f2">>>>, <<G2y, <<"f2">>>> >>
AliasMapping == << <<G1, <<"f1", "f3">>>>, <<G1y, <<"f2">>>> >>
Mappings == {NoMapping, BlockMapping, SplitMapping, OverlapMapping, AliasMapping}

NoValues == [f \in Fields |-> [inst |-> NoInst, raw |-> Unset]]

Init ==
    /\ \E d \in 0..MaxNodes : \E fs \in DirsOfSize(d) :
          /\ files = fs
          /\ \E s \in 0..(MaxNodes - d) : defaults \in SchemasOfSize(s)
    /\ yamlPath \in {"absent", "str", "Path"}
    /\ mapping \in Mappings
    /\ pc = "idle"
    /\ idx = 1
    /\ values = NoValues
    /\ invalid = {}
    /\ err = ""
    /\ runs = 0
    /\ io = <<>>
    /\ before = files

\* BlockConfig over an existing models file with nested content: one last
\* instantiation.
InitNested ==
    /\ \E d \in 0..MaxNestedNodes : \E fs \in DirsOfSize(d) :
          /\ fs[FileA] # NoFile
          /\ files = fs
          /\ \E s \in 0..(MaxNestedNodes - d) : defaults \in NestedSchemasOfSize(s)
    /\ yamlPath = "Path"
    /\ mapping = BlockMapping
    /\ pc = "idle"
    /\ idx = 1
    /\ values = NoValues
    /\ invalid = {}
    /\ err = ""
    /\ runs = MaxRuns - 1
    /\ io = <<>>
    /\ before = files

(***************************************************************************)
(* Actions                                                                 *)
(***************************************************************************)
\* cfg = MyConfig(): a new instantiation starts.
Instantiate ==
    /\ pc \in {"idle", "done", "error"}
    /\ runs < MaxRuns
    /\ pc' = "validate"
    /\ runs' = runs + 1
    /\ idx' = 1
    /\ values' = NoValues
    /\ invalid' = {}
    /\ err' = ""
    /\ io' = <<>>
    /\ before' = files
    /\ UNCHANGED <<defaults, yamlPath, mapping, files>>

\* The model validator, run before any field is validated.
check_yaml_path ==
    /\ pc = "validate"
    /\ IF yamlPath = "absent"
       THEN /\ pc' = "error"
            /\ err' = "AttributeError"
            /\ UNCHANGED yamlPath
       ELSE /\ yamlPath' = "Path"
            /\ pc' = "fields"
            /\ UNCHANGED err
    /\ UNCHANGED <<defaults, mapping, files, idx, values, invalid,
                   runs, io, before>>

\* The field validator, run for each declared field in declaration order, and
\* the framework's coercion of what it returned.
load_or_generate_model_config ==
    /\ pc = "fields"
    /\ idx <= Len(FieldOrder)
    /\ LET field == FieldOrder[idx]
           r == load_or_generate(field, defaults[field])
       IN IF r.error # ""
          THEN /\ pc' = "error"
               /\ err' = r.error
               /\ UNCHANGED <<files, io, values, invalid, idx>>
          ELSE /\ files' = r.files
               /\ io' = io \o r.io
               /\ values' = [values EXCEPT ![field] = r.value]
               /\ invalid' = IF r.value.raw # Unset
                                /\ ~Coerces(r.value.raw, defaults[field])
                             THEN invalid \cup {field} ELSE invalid
               /\ idx' = idx + 1
               /\ UNCHANGED <<pc, err>>
    /\ UNCHANGED <<defaults, yamlPath, mapping, runs, before>>

\* Every field was validated: the instance is built, or the collected
\* validation errors are raised.
Finish ==
    /\ pc = "fields"
    /\ idx > Len(FieldOrder)
    /\ IF invalid = {}
       THEN pc' = "done" /\ UNCHANGED err
       ELSE pc' = "error" /\ err' = "ValidationError"
    /\ UNCHANGED <<defaults, yamlPath, mapping, files, idx, values,
                   invalid, runs, io, before>>

Next ==
    \/ Instantiate
    \/ check_yaml_path
    \/ load_or_generate_model_config
    \/ Finish

Spec == Init /\ [][Next]_vars

SpecNested == InitNested /\ [][Next]_vars

(***************************************************************************)
(* Keys of a tree, by path, and the reconciliations of the instantiation.  *)
(***************************************************************************)
RECURSIVE PathsOf(_)
\* The paths of the keys of n, at every depth.
PathsOf(n) ==
    IF ~IsTree(n) THEN {}
    ELSE UNION {{<<k>>} \cup {<<k>> \o p : p \in PathsOf(n.kids[k])} : k \in DOMAIN n.kids}

RECURSIVE At(_, _)
\* The value of n at path p; Unset when n has no such key.
At(n, p) ==
    IF p = <<>> THEN n
    ELSE IF Has(n, Head(p)) THEN At(n.kids[Head(p)], Tail(p))
    ELSE Unset

\* The paths leading to p: its proper prefixes.
Above(p) == {SubSeq(p, 1, n) : n \in 1..(Len(p) - 1)}

IndexOf(field) == CHOOSE i \in 1..Len(FieldOrder) : FieldOrder[i] = field
\* The field's validator has returned in this instantiation.
Resolved(field) == pc \in {"fields", "done", "error"} /\ idx > IndexOf(field)

\* The positions in io of the documents update_yaml_from_model loaded; the
\* document it wrote back is the next entry.
Updates == {i \in 1..Len(io) : io[i].op = "read"}
OnDisk(i) == io[i].doc
Merged(i) == io[i + 1].doc
DefaultTree(i) == GroupDefault(GroupFields(io[i].field))
\* The artifact was there before the field was resolved.
Existing(i) == io[i - 1].op = "is_file"

\* C1. Override preservation: when a field is resolved against an artifact, every
\* key of the on-disk tree and of the default tree, at any depth, whose default is a
\* leaf has its on-disk value in the tree written back, and in the sub-tree
\* returned when it lies under the resolved field.
C1_OverridePreserved ==
    \A i \in Updates :
        \A p \in PathsOf(OnDisk(i)) \cap PathsOf(DefaultTree(i)) :
            ~IsTree(At(DefaultTree(i), p)) =>
                /\ p \in PathsOf(Merged(i))
                /\ At(Merged(i), p) = At(OnDisk(i), p)
                /\ p[1] = io[i].field =>
                       At(values[io[i].field].raw, Tail(p)) = At(OnDisk(i), p)

\* C1: an existing artifact overrides a default two levels below the resolved field.
C1_Witness ==
    \E i \in Updates :
        /\ Existing(i)
        /\ \E p \in PathsOf(OnDisk(i)) \cap PathsOf(DefaultTree(i)) :
              /\ Len(p) = 3
              /\ p[1] = io[i].field
              /\ ~IsTree(At(DefaultTree(i), p))
              /\ At(OnDisk(i), p) # At(DefaultTree(i), p)
              /\ At(values[io[i].field].raw, Tail(p)) = At(OnDisk(i), p)

\* C2, as claimed. Pruning: every key of the on-disk tree that the default tree
\* does not have, at any depth, is absent from the tree written back.
C2_PrunedEverywhere ==
    \A i \in Updates :
        \A p \in PathsOf(OnDisk(i)) \ PathsOf(DefaultTree(i)) :
            p \notin PathsOf(Merged(i))

\* C2, amended. Every key of the on-disk tree that the default tree does not have
\* is absent from the tree written back, unless it lies below a key whose default
\* is a leaf.
C2_PrunedUnderTrees ==
    \A i \in Updates :
        \A p \in PathsOf(OnDisk(i)) \ PathsOf(DefaultTree(i)) :
            (\A q \in Above(p) : q \in PathsOf(DefaultTree(i)) => IsTree(At(DefaultTree(i), q)))
                => p \notin PathsOf(Merged(i))

\* C2: an existing artifact loses a key of a nested tree, two levels below a field
\* of the group, whose tree the default tree still has.
C2_Witness ==
    \E i \in Updates :
        /\ Existing(i)
        /\ \E p \in PathsOf(OnDisk(i)) \ PathsOf(DefaultTree(i)) :
              /\ Len(p) = 3
              /\ \A q \in Above(p) : q \in PathsOf(DefaultTree(i))
              /\ p \notin PathsOf(Merged(i))

Groups == 1..Len(mapping)
\* Where the artifact of a group is expected: g1 and g1.yaml name the first
\* file, g2 and g2.yaml the second.
ExpectedFile(g) == IF mapping[g][1] \in {G1, G1y} THEN FileA ELSE FileB
\* Another group of the mapping has its artifact at the same place.
Shared(g) == \E h \in Groups : h # g /\ ExpectedFile(h) = ExpectedFile(g)
\* The default tree of every field the mapping assigns to the group.
ExpectedDefaults(g) == Tree([f \in Range(mapping[g][2]) |-> model_dump(defaults[f])])
\* The groups that list the field.
ListedIn(field) == {g \in Groups : \E n \in 1..Len(mapping[g][2]) : mapping[g][2][n] = field}

\* C4. Generation-on-absence: after an instantiation that found no
\* artifact for a group, the group's file holds exactly the default tree of every
\* field of the group.
C4_GeneratedOnAbsence ==
    pc = "done" =>
        \A g \in Groups :
            before[ExpectedFile(g)] = NoFile => files[ExpectedFile(g)] = ExpectedDefaults(g)

\* C4, where it does hold: the same, for a group whose file is the file of no
\* other group of the mapping.
C4_GeneratedOnAbsenceUnshared ==
    pc = "done" =>
        \A g \in Groups :
            (before[ExpectedFile(g)] = NoFile /\ ~Shared(g))
                => files[ExpectedFile(g)] = ExpectedDefaults(g)

\* C4: both shapes of mapping have generated their files: one group of two fields
\* whose identifier carries the extension, two groups of one field whose
\* identifiers do not.
C4_Witness ==
    /\ pc = "done"
    /\ mapping = SplitMapping
    /\ before[FileA] = NoFile /\ before[FileB] = NoFile
    /\ files[FileA] = ExpectedDefaults(1) /\ files[FileB] = ExpectedDefaults(2)
    /\ \E f \in Fields : IsModel(defaults[f])

\* C5. Idempotence: reconciling a written tree against the same default tree gives
\* the same tree, and a second instantiation ends with every file as the first
\* left it.
C5_Idempotent ==
    /\ \A i \in Updates : Reconcile(Merged(i), DefaultTree(i)) = Merged(i)
    /\ (runs >= 2 /\ pc \in {"done", "error"}) => files = before

\* C5: a second instantiation has reconciled a file that holds an override and has
\* left it as it was.
C5_Witness ==
    /\ runs >= 2
    /\ pc = "done"
    /\ files = before
    /\ \E i \in Updates : Existing(i) /\ Merged(i) # DefaultTree(i) /\ Merged(i) = OnDisk(i)

\* C6. Group overlap rejection: a field listed by two groups is never resolved, and
\* the instantiation ends in an error: ConfigurationConflict when the base
\* directory is declared.
C6_OverlapRejected ==
    \A f \in Fields :
        Cardinality(ListedIn(f)) > 1 =>
            /\ ~Resolved(f)
            /\ pc # "done"
            /\ pc = "fields" => idx <= IndexOf(f)
            /\ (pc = "error" /\ yamlPath # "absent") => err = "ConfigurationConflict"

\* C6: the instantiation has failed on the field two groups list, after resolving
\* the field before it.
C6_Witness ==
    /\ pc = "error"
    /\ err = "ConfigurationConflict"
    /\ \E f \in Fields : Cardinality(ListedIn(f)) > 1 /\ idx = IndexOf(f)
    /\ io # <<>>

\* C7. ConfigSpec rule: a mapping without a base directory fails; without a mapping
\* the instantiation raises no error and touches no file, whether or not the base
\* directory is declared.
C7_ConfigSpecRule ==
    /\ (Len(mapping) > 0 /\ yamlPath = "absent") => pc \notin {"fields", "done"}
    /\ Len(mapping) = 0 => (pc # "error" /\ io = <<>> /\ files = before)

\* C8. Unmapped bypass: a field that no group lists is returned as it was handed
\* in, and no filesystem operation is made for it.
C8_UnmappedBypass ==
    \A f \in Fields :
        ListedIn(f) = {} =>
            /\ \A i \in 1..Len(io) : io[i].field # f
            /\ Resolved(f) => values[f] = [inst |-> defaults[f], raw |-> Unset]

\* C8: an unmapped field was resolved after a mapped field of the same schema had
\* reconciled its artifact.
C8_Witness ==
    \E f \in Fields :
        /\ ListedIn(f) = {}
        /\ Resolved(f)
        /\ values[f].inst = defaults[f]
        /\ \E i \in Updates : Existing(i)
        /\ files # before

\* The first reconciliation, in this instantiation, of the group the field of
\* update i is resolved in.
FirstOf(i) ==
    CHOOSE j \in Updates :
        /\ GroupFields(io[j].field) = GroupFields(io[i].field)
        /\ \A h \in Updates :
              GroupFields(io[h].field) = GroupFields(io[i].field) => j <= h

\* What C9 says of update i.
ReadsOwnWrite(i) ==
    /\ i # FirstOf(i) => OnDisk(i) = Merged(FirstOf(i))
    /\ Merged(i) = Merged(FirstOf(i))
    /\ values[io[i].field].raw = Merged(FirstOf(i)).kids[io[i].field]

\* C9. Read-your-own-write: fields are resolved in declaration order;
\* every later field of a group reads what the first resolution of the group
\* wrote, writes the same, and returns its own sub-tree of it.
C9_ReadYourOwnWrite ==
    /\ \A i, j \in 1..Len(io) : i <= j => IndexOf(io[i].field) <= IndexOf(io[j].field)
    /\ \A i \in Updates : ReadsOwnWrite(i)

\* C9, where it does hold: the same, for the fields of a group whose file is the
\* file of no other group of the mapping.
C9_ReadYourOwnWriteUnshared ==
    /\ \A i, j \in 1..Len(io) : i <= j => IndexOf(io[i].field) <= IndexOf(io[j].field)
    /\ \A i \in Updates :
          (\A g \in ListedIn(io[i].field) : ~Shared(g)) => ReadsOwnWrite(i)

\* C9: the second field of a group read a reconciled artifact that keeps an override
\* and has dropped a stale key.
C9_Witness ==
    \E i \in Updates :
        /\ FirstOf(i) # i
        /\ Existing(FirstOf(i))
        /\ OnDisk(FirstOf(i)) # Merged(FirstOf(i))
        /\ Merged(FirstOf(i)) # DefaultTree(i)
        /\ ReadsOwnWrite(i)

====
